---- MODULE Spec2Model ----
(***************************************************************************)
(* mdq: a Markdown query tool.  The model covers the document parser       *)
(* (parser.go: ParseDocument, removeCodeBlocks) and the query engine       *)
(* (query.go: ExecuteQuery, formatQuery).                                  *)
(*                                                                         *)
(* A Go string is modelled as a sequence of one-character strings, so that *)
(* trimming, prefix tests, splitting and joining are computed the way the  *)
(* code computes them.  The zero value "" of a Go string is <<>>.          *)
(***************************************************************************)
EXTENDS Integers, Sequences, FiniteSets, TLC

VARIABLES content, filePath, opts, queryStr, doc, err, query, results, rendered,
          files, queries, output, reparsed, pc

vars == <<content, filePath, opts, queryStr, doc, err, query, results, rendered,
          files, queries, output, reparsed, pc>>

(***************************************************************************)
(* Bounds of the model.                                                    *)
(***************************************************************************)
\* lines after the metadata block, parser specification
MaxLines == 3
\* lines after the metadata block, pipeline specification
MaxDocLines == 3
\* largest explicit index a query carries
MaxIndex == 2
\* files named on one command line
MaxFiles == 2
\* characters of a query string after its leading markers
MaxQueryLen == 4
\* lines of a document with code blocks, after its optional first heading
MaxFenceLines == 4

(***************************************************************************)
(* The strings package, as far as the program uses it.                     *)
(***************************************************************************)
NL == "\n"

\* unicode.IsSpace restricted to ASCII
IsSpace(c) == c \in {" ", "\t", "\n", "\r"}

RECURSIVE TrimLeftSpace(_)
TrimLeftSpace(s) ==
  IF s # <<>> /\ IsSpace(Head(s)) THEN TrimLeftSpace(Tail(s)) ELSE s

RECURSIVE TrimRightSpace(_)
TrimRightSpace(s) ==
  IF s # <<>> /\ IsSpace(s[Len(s)])
  THEN TrimRightSpace(SubSeq(s, 1, Len(s) - 1))
  ELSE s

TrimSpace(s) == TrimRightSpace(TrimLeftSpace(s))

\* strings.TrimRight(s, cutset) for a one-character cutset
RECURSIVE TrimRight(_, _)
TrimRight(s, c) ==
  IF s # <<>> /\ s[Len(s)] = c
  THEN TrimRight(SubSeq(s, 1, Len(s) - 1), c)
  ELSE s

HasPrefix(s, p) == Len(s) >= Len(p) /\ SubSeq(s, 1, Len(p)) = p

\* strings.Split(s, sep) for a one-character sep: never empty, Split("") = [""]
RECURSIVE SplitFrom(_, _, _, _)
SplitFrom(s, c, i, cur) ==
  IF i > Len(s) THEN <<cur>>
  ELSE IF s[i] = c THEN <<cur>> \o SplitFrom(s, c, i + 1, <<>>)
  ELSE SplitFrom(s, c, i + 1, Append(cur, s[i]))

Split(s, c) == SplitFrom(s, c, 1, <<>>)

\* strings.Join(parts, sep) for a one-character sep
RECURSIVE Join(_, _)
Join(parts, c) ==
  IF parts = <<>> THEN <<>>
  ELSE IF Len(parts) = 1 THEN parts[1]
  ELSE parts[1] \o <<c>> \o Join(Tail(parts), c)

\* the run of '#' at the start of s (the level loops of parser.go and query.go)
RECURSIVE CountMarkers(_)
CountMarkers(s) ==
  IF s # <<>> /\ Head(s) = "#" THEN 1 + CountMarkers(Tail(s)) ELSE 0

\* s[n:]
DropFirst(s, n) == SubSeq(s, n + 1, Len(s))

\* strconv.Itoa / fmt "%d" for a non-negative integer
Digit(n) == CASE n = 0 -> "0" [] n = 1 -> "1" [] n = 2 -> "2" [] n = 3 -> "3"
              [] n = 4 -> "4" [] n = 5 -> "5" [] n = 6 -> "6" [] n = 7 -> "7"
              [] n = 8 -> "8" [] n = 9 -> "9"

RECURSIVE Itoa(_)
Itoa(n) == IF n < 10 THEN <<Digit(n)>> ELSE Itoa(n \div 10) \o <<Digit(n % 10)>>

(***************************************************************************)
(* gopkg.in/yaml.v3 Unmarshal into map[string]interface{}, for the block   *)
(* shapes the model feeds it: one "key: value" or "key:" mapping entry per *)
(* line.  A block that is not such a mapping (a flow collection left open, *)
(* a bare scalar, a repeated key) makes Unmarshal return an error and      *)
(* leave the map as it was.                                                *)
(***************************************************************************)
YamlNull == [kind |-> "null"]
YamlStr(s) == [kind |-> "string", val |-> s]

RECURSIVE IndexByte(_, _, _)
IndexByte(s, c, i) ==
  IF i > Len(s) THEN 0 ELSE IF s[i] = c THEN i ELSE IndexByte(s, c, i + 1)

IsKeyChar(c) == c \in {"a", "b", "c", "d", "k", "t", "v"}

\* one line of the block: <<>> for a blank line, <<key, value>> for an entry,
\* "bad" for anything else
YamlLine(line) ==
  LET p == IndexByte(line, ":", 1)
      key == SubSeq(line, 1, p - 1)
      rest == DropFirst(line, p)
  IN IF TrimSpace(line) = <<>> THEN <<>>
     ELSE IF p <= 1 \/ \E i \in 1..Len(key) : ~IsKeyChar(key[i]) THEN "bad"
     ELSE IF rest = <<>> THEN <<key, YamlNull>>
     ELSE IF rest[1] # " " THEN "bad"
     ELSE IF TrimSpace(rest) = <<>> THEN <<key, YamlNull>>
     ELSE <<key, YamlStr(TrimSpace(rest))>>

RECURSIVE YamlEntries(_, _)
YamlEntries(lines, m) ==
  IF lines = <<>> THEN [err |-> FALSE, m |-> m]
  ELSE LET e == YamlLine(Head(lines))
       IN IF e = "bad" THEN [err |-> TRUE, m |-> m]
          ELSE IF e = <<>> THEN YamlEntries(Tail(lines), m)
          ELSE IF e[1] \in DOMAIN m THEN [err |-> TRUE, m |-> m]
          ELSE YamlEntries(Tail(lines),
                           [k \in DOMAIN m \cup {e[1]} |->
                              IF k = e[1] THEN e[2] ELSE m[k]])

\* yaml.Unmarshal([]byte(text), &m): the map after the call, and whether the
\* call returned an error
YamlUnmarshal(text, m) ==
  LET r == YamlEntries(Split(text, NL), m)
  IN IF r.err THEN [err |-> TRUE, m |-> m] ELSE r

\* make(map[string]interface{})
EmptyMap == [k \in {} |-> YamlNull]

(***************************************************************************)
(* parser.go                                                               *)
(***************************************************************************)
Delimiter == <<"-", "-", "-">>
\* the triple-backquote token; a TLA+ string cannot hold a backquote, so the
\* character is written "~" throughout the model
Fence == <<"~", "~", "~">>

\* dropCR of bufio: one trailing carriage return is dropped from a line
DropCR(line) ==
  IF Len(line) > 0 /\ line[Len(line)] = "\r"
  THEN SubSeq(line, 1, Len(line) - 1) ELSE line

\* bufio.Scanner with ScanLines over text: the lines, without the empty
\* token after a final newline, and none at all for the empty text
ScanLines(text) ==
  LET parts == Split(text, NL)
      all == IF parts[Len(parts)] = <<>>
             THEN SubSeq(parts, 1, Len(parts) - 1) ELSE parts
  IN [i \in 1..Len(all) |-> DropCR(all[i])]

\* a fence test on the line as it stands, leading blanks included
IsFenceUntrimmed(line) == HasPrefix(line, Fence)

\* whether a line opens or closes a code block
IsFence(line) == HasPrefix(TrimSpace(line), Fence)

\* the scanner loop of removeCodeBlocks: what has been written to result
RECURSIVE FenceLoop(_, _, _)
FenceLoop(lines, inCodeBlock, result) ==
  IF lines = <<>> THEN result
  ELSE IF IsFence(Head(lines))
       THEN FenceLoop(Tail(lines), ~inCodeBlock, result)
       ELSE IF ~inCodeBlock
            THEN FenceLoop(Tail(lines), inCodeBlock, result \o Head(lines) \o <<NL>>)
            ELSE FenceLoop(Tail(lines), inCodeBlock, result)

removeCodeBlocks(text) == TrimRight(FenceLoop(ScanLines(text), FALSE, <<>>), NL)

\* the frontmatter loop: <<lineIdx after the loop, frontmatterLines>>
\* (lineIdx is 0-based as in the code; lines[lineIdx] is lines[lineIdx + 1] here)
RECURSIVE FrontmatterLoop(_, _, _)
FrontmatterLoop(lines, lineIdx, frontmatterLines) ==
  IF lineIdx >= Len(lines) THEN <<lineIdx, frontmatterLines>>
  ELSE IF TrimSpace(lines[lineIdx + 1]) = Delimiter
       THEN <<lineIdx + 1, frontmatterLines>>
       ELSE FrontmatterLoop(lines, lineIdx + 1,
                            Append(frontmatterLines, lines[lineIdx + 1]))

\* levelCounts[level], 0 for a level not yet in the map
Count(levelCounts, level) ==
  IF level \in DOMAIN levelCounts THEN levelCounts[level] ELSE 0

\* currentSection.Body = ...; doc.Sections = append(doc.Sections, *currentSection)
SaveSection(sections, currentSection, bodyLines) ==
  Append(sections,
         [currentSection[1] EXCEPT !.Body = TrimRight(Join(bodyLines, NL), NL)])

\* a heading test on the line as it stands, leading blanks included
IsHeadingUntrimmed(line) == HasPrefix(line, <<"#">>)

\* whether a line is a heading line
IsHeading(line) == HasPrefix(TrimSpace(line), <<"#">>)

\* the level of a heading line
HeadingLevel(line) == CountMarkers(TrimSpace(line))

\* levelCounts[level]++
IncrCount(levelCounts, level) ==
  [l \in DOMAIN levelCounts \cup {level} |->
     Count(levelCounts, l) + (IF l = level THEN 1 ELSE 0)]

RECURSIVE SumCounts(_, _)
SumCounts(levelCounts, levels) ==
  IF levels = {} THEN 0
  ELSE LET l == CHOOSE x \in levels : TRUE
       IN levelCounts[l] + SumCounts(levelCounts, levels \ {l})

\* an Index that counts the sections of every level
SectionIndexAnyLevel(levelCounts, level) ==
  SumCounts(levelCounts, DOMAIN levelCounts) - 1

\* the Index given to a new section of a level, levelCounts being the map
\* after levelCounts[level]++
SectionIndex(levelCounts, level) == Count(levelCounts, level) - 1

\* the heading branch: the Section built for a heading line, levelCounts being
\* the map after levelCounts[level]++
NewSection(line, levelCounts) ==
  LET trimmed == TrimSpace(line)
      level == HeadingLevel(line)
  IN [Level |-> level,
      Title |-> TrimSpace(DropFirst(trimmed, level)),
      Heading |-> line,
      Body |-> <<>>,
      Index |-> SectionIndex(levelCounts, level)]

\* whether the pending body lines are cleared when a heading is met
ResetBody(currentSection, bodyLines) ==
  IF currentSection # <<>> THEN <<>> ELSE bodyLines

\* the section loop and the save of the last section; currentSection is <<>>
\* for nil and <<section>> otherwise
RECURSIVE SectionLoop(_, _, _, _, _, _)
SectionLoop(lines, lineIdx, levelCounts, currentSection, bodyLines, sections) ==
  IF lineIdx >= Len(lines)
  THEN IF currentSection # <<>>
       THEN SaveSection(sections, currentSection, bodyLines)
       ELSE sections
  ELSE LET line == lines[lineIdx + 1]
       IN IF IsHeading(line)
          THEN LET counts == IncrCount(levelCounts, HeadingLevel(line))
               IN SectionLoop(lines, lineIdx + 1,
                              counts,
                              <<NewSection(line, counts)>>,
                              ResetBody(currentSection, bodyLines),
                              IF currentSection # <<>>
                              THEN SaveSection(sections, currentSection, bodyLines)
                              ELSE sections)
          ELSE SectionLoop(lines, lineIdx + 1, levelCounts, currentSection,
                           Append(bodyLines, line), sections)

\* a ParseDocument that returns the error of yaml.Unmarshal
YamlErrorReturned(r) == IF r.err THEN "yaml" ELSE "nil"

\* what ParseDocument does with the value yaml.Unmarshal returns: nothing
YamlError(r) == "nil"

\* ParseDocument(content, filePath, noBlocks): the (*Document, error) pair
ParseDocument(text, path, noBlocks) ==
  LET lines == Split(text, NL)
      hasFm == Len(lines) > 0 /\ TrimSpace(lines[1]) = Delimiter
      fm == IF hasFm THEN FrontmatterLoop(lines, 1, <<>>) ELSE <<0, <<>>>>
      y == IF hasFm /\ Len(fm[2]) > 0
           THEN YamlUnmarshal(Join(fm[2], NL), EmptyMap)
           ELSE [err |-> FALSE, m |-> EmptyMap]
      secs == SectionLoop(lines, fm[1], [l \in {} |-> 0], <<>>, <<>>, <<>>)
      filtered == IF noBlocks
                  THEN [i \in 1..Len(secs) |->
                          [secs[i] EXCEPT !.Body = removeCodeBlocks(secs[i].Body)]]
                  ELSE secs
  IN IF Len(lines) = 0
     THEN [doc |-> [FilePath |-> path, Frontmatter |-> EmptyMap, Sections |-> <<>>],
           err |-> "nil"]
     ELSE IF YamlError(y) # "nil"
     THEN [doc |-> [FilePath |-> path, Frontmatter |-> EmptyMap, Sections |-> <<>>],
           err |-> YamlError(y)]
     ELSE [doc |-> [FilePath |-> path, Frontmatter |-> y.m, Sections |-> filtered],
           err |-> "nil"]

(***************************************************************************)
(* query.go: ParseQuery                                                    *)
(***************************************************************************)
IsDigit(c) == c \in {"0", "1", "2", "3", "4", "5", "6", "7", "8", "9"}

DigitValue(c) == CASE c = "0" -> 0 [] c = "1" -> 1 [] c = "2" -> 2 [] c = "3" -> 3
                   [] c = "4" -> 4 [] c = "5" -> 5 [] c = "6" -> 6 [] c = "7" -> 7
                   [] c = "8" -> 8 [] c = "9" -> 9

\* strconv.Atoi for a string of digits whose value fits an int
RECURSIVE Atoi(_)
Atoi(ds) ==
  IF ds = <<>> THEN 0
  ELSE 10 * Atoi(SubSeq(ds, 1, Len(ds) - 1)) + DigitValue(ds[Len(ds)])

\* whether s matches \[(\d+)]$ from its first character to the end of the text
IsBracketedDigits(s) ==
  /\ Len(s) >= 3
  /\ s[1] = "[" /\ s[Len(s)] = "]"
  /\ \A j \in 2..(Len(s) - 1) : IsDigit(s[j])

\* whether s matches .*? as a whole: the dot matches no line feed
IsDotRun(s) == \A j \in 1..Len(s) : s[j] # NL

\* a pattern whose bracket need not close the text: (.*?)\[(\d+)]
RECURSIVE IndexPatternUnanchoredFrom(_, _, _)
IndexPatternUnanchoredFrom(rest, k, n) ==
  IF k > Len(rest) THEN <<>>
  ELSE IF n > Len(rest) THEN IndexPatternUnanchoredFrom(rest, k + 1, k + 2)
  ELSE IF IsDotRun(SubSeq(rest, 1, k)) /\ IsBracketedDigits(SubSeq(rest, k + 1, n))
  THEN <<SubSeq(rest, 1, k), SubSeq(rest, k + 2, n - 1)>>
  ELSE IndexPatternUnanchoredFrom(rest, k, n + 1)

IndexPatternUnanchored(rest) == IndexPatternUnanchoredFrom(rest, 0, 1)

\* indexPattern.FindStringSubmatch(rest) for ^(.*?)\[(\d+)]$ : <<>> for nil,
\* else the two groups; the lazy group takes the shortest prefix that lets
\* the remainder match
RECURSIVE IndexPatternFrom(_, _)
IndexPatternFrom(rest, k) ==
  IF k > Len(rest) THEN <<>>
  ELSE IF IsDotRun(SubSeq(rest, 1, k))
          /\ IsBracketedDigits(SubSeq(rest, k + 1, Len(rest)))
  THEN <<SubSeq(rest, 1, k), SubSeq(rest, k + 2, Len(rest) - 1)>>
  ELSE IndexPatternFrom(rest, k + 1)

IndexPattern(rest) == IndexPatternFrom(rest, 0)

\* the section branch of ParseQuery
ParseSectionQuery(s) ==
  LET level == CountMarkers(s)
      rest == DropFirst(s, level)
      matches == IndexPattern(rest)
  IN IF matches # <<>>
     THEN [Type |-> "section", Level |-> level, Title |-> TrimSpace(matches[1]),
           Index |-> Atoi(matches[2]), ExplicitIndex |-> TRUE, Field |-> <<>>]
     ELSE [Type |-> "section", Level |-> level, Title |-> TrimSpace(rest),
           Index |-> 0, ExplicitIndex |-> FALSE, Field |-> <<>>]

\* ParseQuery(queryStr): the (*Query, error) pair
ParseQuery(s) ==
  IF HasPrefix(s, <<"#">>)
  THEN [query |-> ParseSectionQuery(s), err |-> "nil"]
  ELSE [query |-> [Type |-> "frontmatter", Level |-> 0, Title |-> <<>>, Index |-> 0,
                   ExplicitIndex |-> FALSE, Field |-> s],
        err |-> "nil"]

(***************************************************************************)
(* query.go                                                                *)
(***************************************************************************)
RECURSIVE Repeat(_, _)
Repeat(c, n) == IF n <= 0 THEN <<>> ELSE <<c>> \o Repeat(c, n - 1)

\* a rendering that writes the index only when it is above 0
formatQueryPositiveIndex(q) ==
  IF q.Type = "frontmatter" THEN q.Field
  ELSE Repeat("#", q.Level) \o q.Title
       \o (IF q.Index > 0 THEN <<"[">> \o Itoa(q.Index) \o <<"]">> ELSE <<>>)

\* formatQuery(q)
formatQuery(q) ==
  IF q.Type = "frontmatter" THEN q.Field
  ELSE Repeat("#", q.Level) \o q.Title
       \o (IF q.ExplicitIndex THEN <<"[">> \o Itoa(q.Index) \o <<"]">> ELSE <<>>)

\* &QueryResult{File: doc.FilePath, Query: formatQuery(query)}
EmptyResult(d, q) ==
  [File |-> d.FilePath, Query |-> formatQuery(q), Heading |-> <<>>, Body |-> <<>>]

\* fmt.Sprintf("%v", value) for a non-nil scalar
Sprintf(value) == value.val

\* a label that is the value of the field
FrontmatterHeadingValue(q, value) ==
  IF value = YamlNull THEN <<>> ELSE value.val

\* a label that is set only for a field with a value
FrontmatterHeadingNonNull(q, value) ==
  IF value = YamlNull THEN <<>> ELSE q.Field

\* the heading a found frontmatter field is labelled with
FrontmatterHeading(q, value) == q.Field

\* the frontmatter branch of ExecuteQuery
FrontmatterResult(d, q, o) ==
  IF q.Field \in DOMAIN d.Frontmatter
  THEN LET value == d.Frontmatter[q.Field]
           bodyStr == IF value # YamlNull THEN Sprintf(value) ELSE <<>>
       IN [EmptyResult(d, q) EXCEPT
             !.Body = IF ~o.HeadOnly THEN bodyStr ELSE <<>>,
             !.Heading = IF ~o.BodyOnly /\ ~o.RawOutput
                         THEN FrontmatterHeading(q, value) ELSE <<>>]
  ELSE EmptyResult(d, q)

\* the level test of the section loop
LevelMatches(q, section) == section.Level = q.Level

\* a title test that takes the query's empty title for a title to be met
TitleMatchesExactly(q, section) == section.Title = q.Title

\* a title test that lets every title through
TitleMatchesAny(q, section) == TRUE

\* the title test of the section loop
TitleMatches(q, section) == ~(q.Title # <<>> /\ section.Title # q.Title)

\* an index test that reads the section's stored Index instead of the rank
IndexMatchesStored(q, section, matchIndex) == section.Index = q.Index

\* the index test of the explicit-index branch
IndexMatches(q, section, matchIndex) == matchIndex = q.Index

\* a record that keeps the body under HeadOnly
SectionResultKeepsBody(d, q, o, section) ==
  [EmptyResult(d, q) EXCEPT
     !.Body = section.Body,
     !.Heading = IF ~o.BodyOnly THEN section.Heading ELSE <<>>]

\* the record built for a matched section
SectionResult(d, q, o, section) ==
  [EmptyResult(d, q) EXCEPT
     !.Body = IF ~o.HeadOnly THEN section.Body ELSE <<>>,
     !.Heading = IF ~o.BodyOnly THEN section.Heading ELSE <<>>]

\* the section loop: returned is TRUE when the loop returned from inside
RECURSIVE QueryLoop(_, _, _, _, _, _)
QueryLoop(d, q, o, i, matchIndex, res) ==
  IF i > Len(d.Sections) THEN [returned |-> FALSE, results |-> res]
  ELSE LET section == d.Sections[i]
       IN IF ~LevelMatches(q, section) \/ ~TitleMatches(q, section)
          THEN QueryLoop(d, q, o, i + 1, matchIndex, res)
          ELSE IF q.ExplicitIndex
          THEN IF IndexMatches(q, section, matchIndex)
               THEN [returned |-> TRUE, results |-> <<SectionResult(d, q, o, section)>>]
               ELSE QueryLoop(d, q, o, i + 1, matchIndex + 1, res)
          ELSE QueryLoop(d, q, o, i + 1, matchIndex + 1,
                         Append(res, SectionResult(d, q, o, section)))

\* an end of ExecuteQuery without the placeholder for a missed index
AfterLoopNoPlaceholder(d, q, res) == res

\* what ExecuteQuery returns once the section loop has run to its end
AfterLoop(d, q, res) ==
  IF q.ExplicitIndex /\ Len(res) = 0 THEN <<EmptyResult(d, q)>> ELSE res

\* ExecuteQuery(doc, query, opts)
ExecuteQuery(d, q, o) ==
  IF q.Type = "frontmatter" THEN <<FrontmatterResult(d, q, o)>>
  ELSE LET r == QueryLoop(d, q, o, 1, 0, <<>>)
       IN IF r.returned THEN r.results ELSE AfterLoop(d, q, r.results)

(***************************************************************************)
(* output.go: the object form of the JSON output                           *)
(***************************************************************************)
\* fileResults after the grouping loop of formatJSONObject over
\* results[i..]: for each file met, the object built for it, a map from key
\* to value that holds "file" and one entry per query label
RECURSIVE GroupByFile(_, _, _)
GroupByFile(res, i, fileResults) ==
  IF i > Len(res) THEN fileResults
  ELSE LET result == res[i]
           seen == IF result.File \in DOMAIN fileResults
                   THEN fileResults
                   ELSE [f \in DOMAIN fileResults \cup {result.File} |->
                           IF f = result.File THEN [k \in {<<"f", "i", "l", "e">>} |-> result.File]
                           ELSE fileResults[f]]
           obj == seen[result.File]
       IN IF result.Query = <<>>
          THEN GroupByFile(res, i + 1, seen)
          ELSE GroupByFile(res, i + 1,
                 [seen EXCEPT ![result.File] =
                    [k \in DOMAIN obj \cup {result.Query} |->
                       IF k = result.Query THEN result.Body ELSE obj[k]]])

\* the orders in which a range loop may visit the keys of a map
MapOrders(keys) ==
  {o \in [1..Cardinality(keys) -> keys] : \A k \in keys : \E n \in DOMAIN o : o[n] = k}

\* formatJSONObject(results): the outputs it can give.  An object is written
\* with its keys sorted, so the map stands for its text; several objects are
\* written as an array in the order the range over fileResults visits them.
formatJSONObject(res) ==
  LET fileResults == GroupByFile(res, 1, [f \in {} |-> <<>>])
  IN IF Cardinality(DOMAIN fileResults) = 1
     THEN {<<fileResults[f]>> : f \in DOMAIN fileResults}
     ELSE {[n \in DOMAIN o |-> fileResults[o[n]]] : o \in MapOrders(DOMAIN fileResults)}

(***************************************************************************)
(* Inputs.                                                                 *)
(***************************************************************************)
\* all sequences over S of length at most n
RECURSIVE SeqsUpTo(_, _)
SeqsUpTo(S, n) ==
  IF n = 0 THEN {<<>>}
  ELSE LET shorter == SeqsUpTo(S, n - 1)
       IN shorter \cup {Append(q, x) : q \in {r \in shorter : Len(r) = n - 1}, x \in S}

LineH1A == <<"#", " ", "A">>
LineH2A == <<"#", "#", " ", "A">>
LineH2B == <<"#", "#", " ", "B">>
LineH1Bare == <<" ", "#">>
LineText == <<"x">>
LineOther == <<"y">>
LineBlank == <<>>
LineKeyA == <<"a", ":", " ", "v">>
LineKeyANull == <<"a", ":">>
LineKeyBNull == <<"b", ":">>
LineOpenFlow == <<"[">>

\* lines that follow the metadata block, parser specification
ParseLines == {LineH1A, LineH2B, LineH1Bare, LineText, LineBlank, Fence, Delimiter}

\* leading lines of the text, parser specification: no block, closed blocks
\* (empty, well-formed, malformed, repeated key) and blocks left open
ParseBlocks ==
  { <<>>,
    <<Delimiter, Delimiter>>,
    <<Delimiter, LineKeyA, Delimiter>>,
    <<Delimiter, LineOpenFlow, Delimiter>>,
    <<Delimiter, LineKeyA, LineKeyBNull, Delimiter>>,
    <<Delimiter, LineKeyA, LineOpenFlow, Delimiter>>,
    <<Delimiter, LineKeyA, LineKeyANull, Delimiter>>,
    <<Delimiter, LineKeyA>> }

ParseContents ==
  {Join(b \o ls, NL) : b \in ParseBlocks, ls \in SeqsUpTo(ParseLines, MaxLines)}

\* lines that follow the metadata block, pipeline specification
DocLines == {LineH1A, LineH1Bare, LineH2A, LineH2B, LineText, LineOther}

DocBlocks ==
  { <<>>,
    <<Delimiter, LineKeyA, LineKeyBNull, Delimiter>>,
    <<Delimiter, LineOpenFlow, Delimiter>> }

DocContents ==
  {Join(b \o ls, NL) : b \in DocBlocks, ls \in SeqsUpTo(DocLines, MaxDocLines)}

\* the Options main builds; main exits when -h and -b are both given
AllowedOptions ==
  {o \in [HeadOnly : BOOLEAN, BodyOnly : BOOLEAN, RawOutput : BOOLEAN,
          NoBlocks : BOOLEAN] : ~(o.HeadOnly /\ o.BodyOnly)}

\* the Query values ParseQuery builds
SectionQueries ==
  {[Type |-> "section", Level |-> l, Title |-> t, Index |-> i,
    ExplicitIndex |-> e, Field |-> <<>>] :
     l \in {1, 2}, t \in {<<>>, <<"A">>}, i \in 0..MaxIndex, e \in BOOLEAN}
  \ {q \in [Type : {"section"}, Level : {1, 2}, Title : {<<>>, <<"A">>},
            Index : 1..MaxIndex, ExplicitIndex : {FALSE}, Field : {<<>>}] : TRUE}

FrontmatterQueries ==
  {[Type |-> "frontmatter", Level |-> 0, Title |-> <<>>, Index |-> 0,
    ExplicitIndex |-> FALSE, Field |-> f] : f \in {<<"a">>, <<"b">>, <<"c">>}}

Queries == SectionQueries \cup FrontmatterQueries

NoDocument == [FilePath |-> "", Frontmatter |-> EmptyMap, Sections |-> <<>>]
NoQuery == [Type |-> "", Level |-> 0, Title |-> <<>>, Index |-> 0,
            ExplicitIndex |-> FALSE, Field |-> <<>>]

(***************************************************************************)
(* The program: main parses the document, then runs a query against it.    *)
(***************************************************************************)
InitWith(contents, options) ==
  /\ content \in contents
  /\ filePath = "stdin"
  /\ opts \in options
  /\ queryStr = <<>>
  /\ doc = NoDocument
  /\ err = "nil"
  /\ query = NoQuery
  /\ results = <<>>
  /\ rendered = <<>>
  /\ files = <<>> /\ queries = <<>> /\ output = <<>>
  /\ reparsed = NoQuery
  /\ pc = "start"

Init == InitWith(DocContents, {o \in AllowedOptions : ~o.NoBlocks})

InitParse ==
  InitWith(ParseContents,
           {o \in AllowedOptions : ~o.HeadOnly /\ ~o.BodyOnly /\ ~o.RawOutput})

\* doc, err := ParseDocument(string(content), filePath, noBlocks)
ParseDocumentStep ==
  /\ pc = "start"
  /\ LET r == ParseDocument(content, filePath, opts.NoBlocks)
     IN /\ doc' = r.doc
        /\ err' = r.err
        /\ pc' = IF r.err = "nil" THEN "parsed" ELSE "exit"
  /\ UNCHANGED <<content, filePath, opts, queryStr, query, results, rendered,
               files, queries, output, reparsed>>

\* result := ExecuteQuery(doc, query, opts)
ExecuteQueryStep ==
  /\ pc = "parsed"
  /\ \E q \in Queries :
       /\ query' = q
       /\ results' = ExecuteQuery(doc, q, opts)
  /\ pc' = "executed"
  /\ UNCHANGED <<content, filePath, opts, queryStr, doc, err, rendered,
               files, queries, output, reparsed>>

\* query, err := ParseQuery(qs)
ParseQueryStep ==
  /\ pc = "start"
  /\ LET r == ParseQuery(queryStr)
     IN /\ query' = r.query
        /\ err' = r.err
        /\ pc' = IF r.err = "nil" THEN "compiled" ELSE "exit"
  /\ UNCHANGED <<content, filePath, opts, queryStr, doc, results, rendered,
               files, queries, output, reparsed>>

\* formatQuery(query), the label the query's result records carry
FormatQueryStep ==
  /\ pc = "compiled"
  /\ rendered' = formatQuery(query)
  /\ pc' = "rendered"
  /\ UNCHANGED <<content, filePath, opts, queryStr, doc, err, query, results,
               files, queries, output, reparsed>>

\* ParseQuery applied to the label formatQuery gave
ReparseStep ==
  /\ pc = "rendered"
  /\ reparsed' = ParseQuery(rendered).query
  /\ pc' = "reparsed"
  /\ UNCHANGED <<content, filePath, opts, queryStr, doc, err, query, results, rendered,
                 files, queries, output>>

Next == ParseDocumentStep \/ ExecuteQueryStep

Spec == Init /\ [][Next]_vars

NextParse == ParseDocumentStep

SpecParse == InitParse /\ [][NextParse]_vars

\* documents with code blocks: an optional heading, then up to MaxFenceLines
\* lines among a fence, an indented fence with an info string, a heading,
\* a blank line, a text line and a text line ending in a carriage return
LineFenceInfo == <<" ">> \o Fence \o <<"g">>
LineCR == <<"x", "\r">>

FenceLines == {Fence, LineFenceInfo, LineH1A, LineBlank, LineText, LineCR}

FenceContents ==
  {Join(h \o ls, NL) : h \in {<<>>, <<LineH1A>>},
                       ls \in SeqsUpTo(FenceLines, MaxFenceLines) \ {<<>>}}

InitFence ==
  InitWith(FenceContents,
           {o \in AllowedOptions : ~o.HeadOnly /\ ~o.BodyOnly /\ ~o.RawOutput})

NextFence == ParseDocumentStep

SpecFence == InitFence /\ [][NextFence]_vars

\* the queries of main run against one document, their results in one list
RECURSIVE RunQueries(_, _, _)
RunQueries(d, qs, o) ==
  IF qs = <<>> THEN <<>>
  ELSE ExecuteQuery(d, Head(qs), o) \o RunQueries(d, Tail(qs), o)

\* the loop of main over the files: a file that does not parse is passed over
RECURSIVE RunFiles(_, _, _)
RunFiles(fs, qs, o) ==
  IF fs = <<>> THEN <<>>
  ELSE LET r == ParseDocument(Head(fs).content, Head(fs).path, o.NoBlocks)
       IN (IF r.err # "nil" THEN <<>> ELSE RunQueries(r.doc, qs, o))
          \o RunFiles(Tail(fs), qs, o)

\* FormatOutput(results, opts) for a run with -j and -o: formatJSON hands
\* the results to formatJSONObject
FormatOutput(res, o) ==
  IF ~o.CSVOutput /\ o.JSONOutput /\ o.ObjectOutput THEN formatJSONObject(res) ELSE {}

\* for each file: ParseDocument, then ExecuteQuery for each query
RunFilesStep ==
  /\ pc = "start"
  /\ results' = RunFiles(files, queries, opts)
  /\ pc' = "collected"
  /\ UNCHANGED <<content, filePath, opts, queryStr, doc, err, query, rendered,
                 files, queries, output, reparsed>>

\* output := FormatOutput(results, opts)
FormatOutputStep ==
  /\ pc = "collected"
  /\ output' \in FormatOutput(results, opts)
  /\ pc' = "printed"
  /\ UNCHANGED <<content, filePath, opts, queryStr, doc, err, query, results, rendered,
                 files, queries, reparsed>>

\* runs with -j -o over one to MaxFiles files and one or two queries
FileNames == {"a.md", "b.md", "c.md"}

FileContents == {Join(<<LineH1A, LineText>>, NL), Join(<<LineH1A, LineOther>>, NL)}

FileLists ==
  {fs \in SeqsUpTo([path : FileNames, content : FileContents], MaxFiles) :
     /\ fs # <<>>
     /\ \A i, j \in DOMAIN fs : i # j => fs[i].path # fs[j].path}

QueryLists ==
  SeqsUpTo({q \in SectionQueries : q.Level = 1 /\ q.Title = <<>> /\ q.Index = 0}, 2)
    \ {<<>>}

ObjectOptions ==
  [HeadOnly |-> FALSE, BodyOnly |-> FALSE, RawOutput |-> FALSE, NoBlocks |-> FALSE,
   CSVOutput |-> FALSE, JSONOutput |-> TRUE, ObjectOutput |-> TRUE]

InitOutput ==
  /\ content = <<>>
  /\ filePath = ""
  /\ opts = ObjectOptions
  /\ queryStr = <<>>
  /\ doc = NoDocument
  /\ err = "nil"
  /\ query = NoQuery
  /\ results = <<>>
  /\ rendered = <<>>
  /\ files \in FileLists /\ queries \in QueryLists /\ output = <<>>
  /\ reparsed = NoQuery
  /\ pc = "start"

NextOutput == RunFilesStep \/ FormatOutputStep

SpecOutput == InitOutput /\ [][NextOutput]_vars

\* query strings: up to two markers, then up to MaxQueryLen characters
QueryChars == {"A", " ", "[", "]", "0", "1", "#", NL}

QueryStrings ==
  {m \o b : m \in {<<>>, <<"#">>, <<"#", "#">>},
            b \in SeqsUpTo(QueryChars, MaxQueryLen)}

DefaultOptions ==
  [HeadOnly |-> FALSE, BodyOnly |-> FALSE, RawOutput |-> FALSE, NoBlocks |-> FALSE]

InitQuery ==
  /\ content = <<>>
  /\ filePath = "stdin"
  /\ opts = DefaultOptions
  /\ queryStr \in QueryStrings
  /\ doc = NoDocument
  /\ err = "nil"
  /\ query = NoQuery
  /\ results = <<>>
  /\ rendered = <<>>
  /\ files = <<>> /\ queries = <<>> /\ output = <<>>
  /\ reparsed = NoQuery
  /\ pc = "start"

NextQuery == ParseQueryStep \/ FormatQueryStep \/ ReparseStep

SpecQuery == InitQuery /\ [][NextQuery]_vars

(***************************************************************************)
(* Properties of the query engine, checked under Spec.                     *)
(***************************************************************************)
\* the sections a section query q selects from: those of q's level and, when
\* q has a title, of exactly that title, in document order
Filtered(d, q) ==
  LET Keep(s) == s.Level = q.Level /\ (q.Title = <<>> \/ s.Title = q.Title)
  IN SelectSeq(d.Sections, Keep)

\* record r carries section s's heading and body, as projected by options o
Carries(r, s, o) ==
  /\ r.Heading = IF o.BodyOnly THEN <<>> ELSE s.Heading
  /\ r.Body = IF o.HeadOnly THEN <<>> ELSE s.Body

Executed(type) == pc = "executed" /\ query.Type = type

C2_ExplicitIndexIsRankInFiltered ==
  (Executed("section") /\ query.ExplicitIndex
     /\ query.Index < Len(Filtered(doc, query))) =>
    /\ Len(results) = 1
    /\ Carries(results[1], Filtered(doc, query)[query.Index + 1], opts)

\* the section returned has a stored Index other than the query's index, and
\* the section whose stored Index is the query's index differs from it
C2_Witness ==
  /\ Executed("section") /\ query.ExplicitIndex
  /\ ~opts.HeadOnly /\ ~opts.BodyOnly
  /\ query.Index < Len(Filtered(doc, query))
  /\ Filtered(doc, query)[query.Index + 1].Index # query.Index
  /\ \E i \in 1..Len(doc.Sections) :
       /\ doc.Sections[i].Level = query.Level
       /\ doc.Sections[i].Index = query.Index
       /\ ~Carries(results[1], doc.Sections[i], opts)

\* the record of a missed explicit index: nothing but file and query text
Placeholder(d, q) ==
  [File |-> d.FilePath,
   Query |-> Repeat("#", q.Level) \o q.Title \o <<"[">> \o Itoa(q.Index) \o <<"]">>,
   Heading |-> <<>>,
   Body |-> <<>>]

\* C3: an explicit index that no filtered section has yields exactly one
\* placeholder record (no heading, no body, the query text with its index);
\* a query without index that matches nothing yields the empty list.
C3_MissPlaceholderOrEmpty ==
  /\ (Executed("section") /\ query.ExplicitIndex
        /\ query.Index >= Len(Filtered(doc, query)))
       => results = <<Placeholder(doc, query)>>
  /\ (Executed("section") /\ ~query.ExplicitIndex
        /\ Len(Filtered(doc, query)) = 0)
       => results = <<>>

\* an explicit index beyond the last of several matching sections
C3_Witness ==
  /\ Executed("section") /\ query.ExplicitIndex
  /\ Len(Filtered(doc, query)) >= 1
  /\ query.Index >= Len(Filtered(doc, query))
  /\ Len(results) = 1

(***************************************************************************)
(* Properties of the parser, checked under SpecParse.                      *)
(***************************************************************************)
Lines == Split(content, NL)

IsDelimiterLine(l) == TrimSpace(l) = Delimiter

IsHeadingLine(l) == TrimSpace(l) # <<>> /\ Head(TrimSpace(l)) = "#"

\* the number of leading lines the metadata block takes: none without a
\* leading delimiter, else up to and including the next delimiter line, or
\* all lines when there is none
BlockEnd(lines) ==
  IF ~IsDelimiterLine(lines[1]) THEN 0
  ELSE LET closers == {j \in 2..Len(lines) : IsDelimiterLine(lines[j])}
       IN IF closers = {} THEN Len(lines)
          ELSE CHOOSE j \in closers : \A k \in closers : j <= k

\* the lines of the metadata block between its delimiters
BlockInner(lines) ==
  LET e == BlockEnd(lines)
  IN IF e = 0 THEN <<>>
     ELSE IF IsDelimiterLine(lines[e]) /\ e > 1 THEN SubSeq(lines, 2, e - 1)
     ELSE SubSeq(lines, 2, e)

AfterBlock(lines) == SubSeq(lines, BlockEnd(lines) + 1, Len(lines))

\* the positions of the heading lines after the metadata block
HeadingPositions(lines) ==
  {i \in (BlockEnd(lines) + 1)..Len(lines) : IsHeadingLine(lines[i])}

\* the positions after the metadata block and before the first heading line
PreamblePositions(lines) ==
  {i \in (BlockEnd(lines) + 1)..Len(lines) :
     \A h \in HeadingPositions(lines) : i < h}

\* C4: the lines after the metadata block and before the first heading line
\* are discarded: such a line (not blank, and not repeated after the first
\* heading) is a line of no section's body.
C4_PreambleDiscarded ==
  pc = "parsed" =>
    \A i \in PreamblePositions(Lines) :
      (/\ TrimSpace(Lines[i]) # <<>>
       /\ \A j \in 1..Len(Lines) : (j \notin PreamblePositions(Lines)) => Lines[j] # Lines[i])
      => \A k \in 1..Len(doc.Sections) :
           \A n \in 1..Len(Split(doc.Sections[k].Body, NL)) :
             Split(doc.Sections[k].Body, NL)[n] # Lines[i]

\* C5: the Index of a section is the number of sections of its level that
\* precede it in the document.
C5_IndexIsRankWithinLevel ==
  pc = "parsed" =>
    \A i \in 1..Len(doc.Sections) :
      doc.Sections[i].Index =
        Cardinality({j \in 1..(i - 1) : doc.Sections[j].Level = doc.Sections[i].Level})

\* the second section of a level, with another title than the first, after a
\* section of another level
C5_Witness ==
  /\ pc = "parsed"
  /\ \E i, j, k \in 1..Len(doc.Sections) :
       /\ i < j /\ j < k
       /\ doc.Sections[i].Level = doc.Sections[k].Level
       /\ doc.Sections[j].Level # doc.Sections[k].Level
       /\ doc.Sections[i].Title # doc.Sections[k].Title
       /\ doc.Sections[k].Index = 1

\* C6: ParseDocument returns for every text, without error, one section per
\* heading line after the metadata block, in line order; the empty text
\* gives no section.
C6_OneSectionPerHeadingLine ==
  /\ pc # "exit" /\ err = "nil"
  /\ pc = "start" => ParseDocument(content, filePath, opts.NoBlocks).err = "nil"
  /\ pc = "parsed" =>
       LET hs == SelectSeq(AfterBlock(Lines), IsHeadingLine)
       IN /\ Len(doc.Sections) = Len(hs)
          /\ \A i \in 1..Len(hs) : doc.Sections[i].Heading = hs[i]
  /\ (pc = "parsed" /\ content = <<>>) => doc.Sections = <<>>

\* a metadata block followed by a deeper heading and then a shallower one
C6_Witness ==
  /\ pc = "parsed"
  /\ BlockEnd(Lines) > 0
  /\ Len(doc.Sections) >= 2
  /\ doc.Sections[1].Level > doc.Sections[2].Level

\* whether the metadata block of the text fails to decode
BlockMalformed(lines) ==
  /\ BlockInner(lines) # <<>>
  /\ YamlUnmarshal(Join(BlockInner(lines), NL), EmptyMap).err

WellFormedKeys == <<"a", "b", "c", "d", "k", "t", "v">>

\* the text with each line inside the metadata block replaced by a mapping
\* entry of its own
WellFormedTwin(text) ==
  LET lines == Split(text, NL)
      n == Len(BlockInner(lines))
  IN Join([i \in 1..Len(lines) |->
             IF i >= 2 /\ i <= n + 1 THEN <<WellFormedKeys[i - 1], ":">> ELSE lines[i]],
          NL)

Rendered(value) == IF value.kind = "null" THEN <<>> ELSE value.val

Found == query.Field \in DOMAIN doc.Frontmatter

\* C8: a frontmatter query yields exactly one record whose query text is the
\* field name; for a field not in the metadata, heading and body are absent;
\* for a field found, the body is the rendered value (absent under HeadOnly)
\* and the heading is the field name (absent under BodyOnly or RawOutput),
\* never the value.
C8_FrontmatterSingleRecord ==
  Executed("frontmatter") =>
    /\ Len(results) = 1
    /\ results[1].Query = query.Field
    /\ ~Found => (results[1].Heading = <<>> /\ results[1].Body = <<>>)
    /\ Found =>
         /\ results[1].Body =
              IF opts.HeadOnly THEN <<>> ELSE Rendered(doc.Frontmatter[query.Field])
         /\ results[1].Heading =
              IF opts.BodyOnly \/ opts.RawOutput THEN <<>> ELSE query.Field

\* a field found with a value other than its name, heading and body both set
C8_Witness ==
  /\ Executed("frontmatter") /\ Found
  /\ results[1].Heading = query.Field
  /\ results[1].Body # <<>>
  /\ results[1].Body # query.Field

\* the document without the field the query asks for
WithoutField(d, f) ==
  [d EXCEPT !.Frontmatter = [k \in DOMAIN d.Frontmatter \ {f} |-> d.Frontmatter[k]]]

FoundNull == Found /\ doc.Frontmatter[query.Field] = YamlNull

Hit == Executed("section") /\ query.ExplicitIndex
         /\ query.Index < Len(Filtered(doc, query))

\* C10: under HeadOnly no record has a body, under BodyOnly no record has a
\* heading, and with neither set every record of a matched section has that
\* section's heading and body.
C10_Projection ==
  pc = "executed" =>
    /\ opts.HeadOnly => \A i \in 1..Len(results) : results[i].Body = <<>>
    /\ opts.BodyOnly => \A i \in 1..Len(results) : results[i].Heading = <<>>
    /\ (~opts.HeadOnly /\ ~opts.BodyOnly /\ query.Type = "section") =>
         /\ ~query.ExplicitIndex =>
              \A i \in 1..Len(results) :
                /\ results[i].Heading = Filtered(doc, query)[i].Heading
                /\ results[i].Body = Filtered(doc, query)[i].Body
         /\ Hit =>
              /\ results[1].Heading = Filtered(doc, query)[query.Index + 1].Heading
              /\ results[1].Body = Filtered(doc, query)[query.Index + 1].Body

\* HeadOnly has dropped the body of a matched section that has one
C10_Witness ==
  /\ Executed("section") /\ opts.HeadOnly
  /\ Len(results) >= 1
  /\ \E i \in 1..Len(Filtered(doc, query)) : Filtered(doc, query)[i].Body # <<>>
  /\ results[1].Heading # <<>>

(***************************************************************************)
(* Properties of the query parser, checked under SpecQuery.                *)
(***************************************************************************)
\* the query string after its leading markers
Rest == DropFirst(queryStr, CountMarkers(queryStr))

\* the positions of Rest at which a bracketed digit string runs to the end
BracketStarts ==
  {i \in 1..Len(Rest) :
     /\ Rest[i] = "[" /\ Rest[Len(Rest)] = "]" /\ i + 1 < Len(Rest)
     /\ \A j \in (i + 1)..(Len(Rest) - 1) : IsDigit(Rest[j])}

EndsInBracket == BracketStarts # {}

BracketStart == CHOOSE i \in BracketStarts : TRUE

\* the number the digits of the closing bracket spell
RECURSIVE Number(_)
Number(ds) ==
  IF ds = <<>> THEN 0
  ELSE Number(SubSeq(ds, 1, Len(ds) - 1)) * 10
         + (CHOOSE n \in 0..9 : Digit(n) = ds[Len(ds)])

\* the descriptor of a section query string, the index being taken exactly
\* when hasIndex holds
CompiledAs(hasIndex) ==
  /\ query.Type = "section"
  /\ query.Level = CountMarkers(queryStr) /\ query.Level >= 1
  /\ query.ExplicitIndex = hasIndex
  /\ hasIndex =>
       /\ query.Index = Number(SubSeq(Rest, BracketStart + 1, Len(Rest) - 1))
       /\ query.Title = TrimSpace(SubSeq(Rest, 1, BracketStart - 1))
  /\ ~hasIndex => query.Title = TrimSpace(Rest)

CompiledFrontmatter ==
  /\ query.Type = "frontmatter"
  /\ query.Field = queryStr

\* C11 as claimed: no string is refused; a string starting with # compiles to
\* a section query of the level of its marker run, with explicit index N
\* exactly when the remainder ends in [N], and the trimmed remainder without
\* that suffix as title; any other string compiles to a frontmatter query
\* whose field is the string.
C11_CompileQuery ==
  /\ pc # "exit"
  /\ pc = "compiled" =>
       /\ err = "nil"
       /\ IF queryStr # <<>> /\ queryStr[1] = "#"
          THEN CompiledAs(EndsInBracket)
          ELSE CompiledFrontmatter

\* What ParseQuery does: the explicit index is taken exactly when the
\* remainder ends in [N] and no line feed precedes the bracket.
C11_CompileQueryOnOneLine ==
  /\ pc # "exit"
  /\ pc = "compiled" =>
       /\ err = "nil"
       /\ IF queryStr # <<>> /\ queryStr[1] = "#"
          THEN CompiledAs(EndsInBracket
                            /\ \A j \in 1..(BracketStart - 1) : Rest[j] # NL)
          ELSE CompiledFrontmatter

\* a section query whose title lost a blank before a bracketed index above 0
C11_Witness ==
  /\ pc = "compiled"
  /\ query.Type = "section" /\ query.ExplicitIndex /\ query.Index > 0
  /\ Len(query.Title) < BracketStart - 1

\* whether s ends with the characters of t
HasSuffix(s, t) ==
  Len(s) >= Len(t) /\ SubSeq(s, Len(s) - Len(t) + 1, Len(s)) = t

\* C12: the rendering of a section query is its marker run, then its title,
\* then [N] exactly when the query text carried an explicit index; the text
\* #[0] renders as #[0], and a text without a bracket never renders with [0].
C12_RenderingKeepsExplicitIndex ==
  (pc = "rendered" /\ query.Type = "section") =>
    /\ \E suffix \in {<<>>, <<"[">> \o Itoa(query.Index) \o <<"]">>} :
         /\ rendered = Repeat("#", CountMarkers(queryStr)) \o query.Title \o suffix
         /\ (suffix # <<>>) = query.ExplicitIndex
    /\ queryStr = <<"#", "[", "0", "]">> => rendered = <<"#", "[", "0", "]">>
    /\ (\A j \in 1..Len(queryStr) : queryStr[j] # "[")
         => ~HasSuffix(rendered, <<"[", "0", "]">>)

\* the text #[0] and a text with index 0 after a title, both rendered
C12_Witness ==
  /\ pc = "rendered"
  /\ query.Type = "section" /\ query.ExplicitIndex /\ query.Index = 0
  /\ HasSuffix(rendered, <<"[", "0", "]">>)

(***************************************************************************)
(* Properties of the code block filter, checked under SpecFence.           *)
(***************************************************************************)
\* the sections as the section loop leaves them, before any filtering
SplitterSections == ParseDocument(content, filePath, FALSE).doc.Sections

IsFenceLine(l) == LET t == TrimSpace(l) IN Len(t) >= 3 /\ SubSeq(t, 1, 3) = Fence

\* the lines of a body: none for the empty body
BodyLines(b) == IF b = <<>> THEN <<>> ELSE Split(b, NL)

FenceFree(b) == \A n \in 1..Len(BodyLines(b)) : ~IsFenceLine(BodyLines(b)[n])

\* C13: the filter is idempotent, and it leaves unchanged every body the
\* section loop produces in which no line starts, once trimmed, with a fence.
C13_FilterIdempotentAndNoOp ==
  (pc = "parsed" /\ opts.NoBlocks) =>
    \A i \in 1..Len(doc.Sections) :
      /\ removeCodeBlocks(doc.Sections[i].Body) = doc.Sections[i].Body
      /\ FenceFree(SplitterSections[i].Body)
           => doc.Sections[i].Body = SplitterSections[i].Body

\* the positions of the source lines that lie between an opening fence line
\* and the fence line that closes it
FencedPositions(lines) ==
  {i \in 1..Len(lines) :
     /\ ~IsFenceLine(lines[i])
     /\ Cardinality({j \in 1..(i - 1) : IsFenceLine(lines[j])}) % 2 = 1
     /\ \E j \in (i + 1)..Len(lines) : IsFenceLine(lines[j])}

\* C14: with the filter on, a line between an opening fence and its closing
\* fence (one whose text, a final carriage return apart, stands nowhere
\* outside such a region) is a line of no section's body, also when a line of the region starts with a marker.
C14_FencedLinesLeaveBodies ==
  (pc = "parsed" /\ opts.NoBlocks) =>
    \A i \in FencedPositions(Lines) :
      (\A j \in 1..Len(Lines) :
         (j \notin FencedPositions(Lines)) => DropCR(Lines[j]) # DropCR(Lines[i]))
      => \A k \in 1..Len(doc.Sections) :
           \A n \in 1..Len(BodyLines(doc.Sections[k].Body)) :
             DropCR(BodyLines(doc.Sections[k].Body)[n]) # DropCR(Lines[i])

\* the fence lines among the first n lines
FencesBefore(ls, n) == {j \in 1..n : IsFenceLine(ls[j])}

\* the positions of the lines met while the inside-fence state is false
OutsidePositions(ls) ==
  {n \in 1..Len(ls) :
     ~IsFenceLine(ls[n]) /\ Cardinality(FencesBefore(ls, n - 1)) % 2 = 0}

\* the lines at the given positions, in order, as the scanner hands them on
RECURSIVE LinesAt(_, _, _)
LinesAt(ls, ps, n) ==
  IF n > Len(ls) THEN <<>>
  ELSE (IF n \in ps THEN <<DropCR(ls[n])>> ELSE <<>>) \o LinesAt(ls, ps, n + 1)

\* the text of a sequence of kept lines
TextOf(ls) == TrimRight(Join(ls, NL), NL)

\* C18: one run of the filter drops every fence line and flips the
\* inside-fence state (false at first) at it, and keeps any other line
\* exactly when the state is false; with an odd number of fence lines nothing
\* after the last fence line is kept.
C18_FilterTogglesAtFences ==
  (pc = "parsed" /\ opts.NoBlocks) =>
    \A i \in 1..Len(doc.Sections) :
      LET ls == BodyLines(SplitterSections[i].Body)
          fences == FencesBefore(ls, Len(ls))
          last == CHOOSE j \in fences : \A k \in fences : k <= j
      IN /\ doc.Sections[i].Body = TextOf(LinesAt(ls, OutsidePositions(ls), 1))
         /\ Cardinality(fences) % 2 = 1
              => doc.Sections[i].Body
                   = TextOf(LinesAt(ls, OutsidePositions(ls) \cap (1..last), 1))

\* a body with text, one indented fence and text after it
C18_Witness ==
  /\ pc = "parsed" /\ opts.NoBlocks
  /\ \E i \in 1..Len(doc.Sections) :
       LET ls == BodyLines(SplitterSections[i].Body)
       IN /\ Len(ls) = 3
          /\ ls[2] = LineFenceInfo /\ ls[3] = LineText
          /\ doc.Sections[i].Body = LineText

(***************************************************************************)
(* Properties of a query without index, checked under Spec.                *)
(***************************************************************************)
\* the query with the index 0 written out
WithIndexZero(q) == [q EXCEPT !.ExplicitIndex = TRUE, !.Index = 0]

\* C15: a section query without index returns what the same query with [0]
\* returns, the first matching section only: the same number of records with
\* the same file, heading and body.
C15_NoIndexIsIndexZero ==
  (Executed("section") /\ ~query.ExplicitIndex) =>
    LET zero == ExecuteQuery(doc, WithIndexZero(query), opts)
    IN /\ Len(results) = Len(zero)
       /\ \A i \in 1..Len(zero) :
            /\ results[i].File = zero[i].File
            /\ results[i].Heading = zero[i].Heading
            /\ results[i].Body = zero[i].Body

(***************************************************************************)
(* Properties of a run over several files, checked under SpecOutput.       *)
(***************************************************************************)
\* the place of a file on the command line
FilePosition(path) == CHOOSE i \in DOMAIN files : files[i].path = path

\* the place of a query label among the queries of the run
QueryPositions(label) == {i \in DOMAIN queries : formatQuery(queries[i]) = label}

\* C16: the result list runs through the files in the caller's order and,
\* within a file, through the queries in the caller's order; the output
\* gives the files in that same order.
C16_OutputInCallerOrder ==
  /\ pc \in {"collected", "printed"} =>
       \A i, j \in DOMAIN results :
         i < j =>
           \/ FilePosition(results[i].File) < FilePosition(results[j].File)
           \/ /\ results[i].File = results[j].File
              /\ \E m \in QueryPositions(results[i].Query) :
                   \E n \in QueryPositions(results[j].Query) : m <= n
  /\ pc = "printed" =>
       \A i, j \in DOMAIN output :
         i < j => FilePosition(output[i][<<"f", "i", "l", "e">>])
                    < FilePosition(output[j][<<"f", "i", "l", "e">>])

(***************************************************************************)
(* The extent of a body, checked under SpecParse.                          *)
(***************************************************************************)
\* the position of the k-th heading line after the metadata block
NthHeading(lines, k) ==
  CHOOSE h \in HeadingPositions(lines) :
    Cardinality({g \in HeadingPositions(lines) : g < h}) = k - 1

\* the position at which the k-th section ends: the next heading line, or
\* the position past the last line
SectionEnd(lines, k) ==
  IF k < Cardinality(HeadingPositions(lines)) THEN NthHeading(lines, k + 1)
  ELSE Len(lines) + 1

\* C17: the body of a section is made of the lines between its heading line
\* and the next heading line of any level (or the end of the text), joined
\* by line feeds with the trailing line feeds cut, and of no other line.
C17_BodyEndsAtNextHeading ==
  (pc = "parsed" /\ ~opts.NoBlocks) =>
    \A k \in 1..Len(doc.Sections) :
      doc.Sections[k].Body =
        TrimRight(Join(SubSeq(Lines, NthHeading(Lines, k) + 1, SectionEnd(Lines, k) - 1),
                       NL),
                  NL)

\* C20: a text whose first line is the delimiter and that has no later
\* delimiter line parses without error into no section and no metadata.
C20_UnclosedBlockIsNoMetadata ==
  /\ pc # "exit"
  /\ (/\ pc = "parsed"
      /\ IsDelimiterLine(Lines[1])
      /\ \A j \in 2..Len(Lines) : ~IsDelimiterLine(Lines[j]))
       => /\ err = "nil"
          /\ doc.Sections = <<>>
          /\ doc.Frontmatter = EmptyMap

(***************************************************************************)
(* Properties of a query by level and index, checked under Spec.           *)
(***************************************************************************)
\* the sections of level l whose stored Index is k
Stored(d, l, k) == {i \in 1..Len(d.Sections) :
                      d.Sections[i].Level = l /\ d.Sections[i].Index = k}

\* C19: a query with an index and no title returns the section of its level
\* whose stored Index is the query's index, whatever that section's title,
\* and the placeholder record when the document has no such section.
C19_TitlelessIndexIsStoredIndex ==
  (Executed("section") /\ query.ExplicitIndex /\ query.Title = <<>>) =>
    LET found == Stored(doc, query.Level, query.Index)
    IN /\ Cardinality(found) <= 1
       /\ \A i \in found :
            /\ Len(results) = 1
            /\ results[1].File = doc.FilePath
            /\ Carries(results[1], doc.Sections[i], opts)
       /\ found = {} => results = <<Placeholder(doc, query)>>

\* a query by index alone that hits a title-less section after a titled one
C19_Witness ==
  /\ Executed("section") /\ query.ExplicitIndex /\ query.Title = <<>>
  /\ query.Index = 1
  /\ ~opts.HeadOnly /\ ~opts.BodyOnly
  /\ \E i \in Stored(doc, query.Level, query.Index) :
       /\ doc.Sections[i].Title = <<>>
       /\ results[1].Heading = doc.Sections[i].Heading
       /\ \E j \in 1..(i - 1) :
            doc.Sections[j].Level = query.Level /\ doc.Sections[j].Title # <<>>

(***************************************************************************)
(* The label of a query read back by the query parser, under SpecQuery.    *)
(***************************************************************************)
\* C21: the label of a compiled query string compiles to the same query:
\* the same kind, level, title, presence and value of the index (and field),
\* also for a title that begins with a marker and for a bracket followed by
\* a blank.
C21_RenderingRoundTrips ==
  pc = "reparsed" =>
    /\ reparsed.Type = query.Type
    /\ reparsed.Level = query.Level
    /\ reparsed.Title = query.Title
    /\ reparsed.ExplicitIndex = query.ExplicitIndex
    /\ reparsed.Index = query.Index
    /\ reparsed.Field = query.Field

(***************************************************************************)
(* A hit against a miss, checked under Spec.                               *)
(***************************************************************************)
\* C22: the record an indexed section query returns for a section that
\* exists at its rank is never the placeholder of a miss: it has a heading
\* or a body.
C22_HitIsNotPlaceholder ==
  Hit =>
    /\ Len(results) = 1
    /\ results[1] # Placeholder(doc, query)
    /\ results[1].Heading # <<>> \/ results[1].Body # <<>>

\* What ExecuteQuery does: the record of a hit is the placeholder exactly
\* when BodyOnly is set and the section hit has an empty body.
C22_HitIsPlaceholderOnEmptyBody ==
  Hit =>
    /\ Len(results) = 1
    /\ (results[1] = Placeholder(doc, query))
         = (opts.BodyOnly /\ Filtered(doc, query)[query.Index + 1].Body = <<>>)

====
